---- MODULE Spec2Model ----
(***************************************************************************)
(* Model of python/calibration/calibrate_camera.py: main() opens a capture *)
(* source, builds the chessboard reference points, samples every           *)
(* framestep-th frame, accumulates (object points, image points) pairs on  *)
(* the frames where the chessboard is found, and on 'c' runs the pinhole   *)
(* or fisheye solver and writes the intrinsics to a yaml file; 'q' quits.  *)
(* The OpenCV calls are external: their results (retcode, found, the key,  *)
(* the solver's ret) are inputs chosen nondeterministically.               *)
(***************************************************************************)
EXTENDS Integers, Sequences, FiniteSets, TLC

VARIABLES
    pc,            \* position in main()
    framestep,     \* args.framestep
    fisheye,       \* args.fisheye
    grid_size,     \* tuple parsed from args.grid
    grid_points,   \* the (r*c) x 3 reference array, as a sequence of rows
    source,        \* the cv2.VideoCapture: frames delivered, released or not
    i,             \* zero-based frame counter
    img,           \* the current frame: its index and the overlays drawn on it
    objpoints,     \* list of reference-point arrays
    imgpoints,     \* list of detected-corner arrays
    key,           \* last value of cv2.waitKey(1) & 0xFF
    quit,
    do_calib,
    stdout,        \* what print() has written, in order
    window,        \* image last passed to cv2.imshow("corners", ...)
    windows_open,  \* a window exists (imshow) and was not destroyed
    polls,         \* number of cv2.waitKey(1) calls made in the loop
    solver_calls,  \* solvers invoked, in order
    ret, mtx, dist,\* what the solver returned
    K, D,          \* the buffers main() allocates and later writes out
    file,          \* (key, value) entries written to args.output, in order
    file_opens     \* number of cv2.FileStorage(args.output, WRITE) opens

vars == <<pc, framestep, fisheye, grid_size, grid_points, source, i, img,
          objpoints, imgpoints, key, quit, do_calib, stdout, window,
          windows_open, polls, solver_calls, ret, mtx, dist, K, D, file,
          file_opens>>

(* ---------------- bounds of the model ---------------- *)
MaxFrames == 13   \* frames the capture source can deliver (indices 0..MaxFrames-1)
MaxStep == 3      \* framestep ranges over 1..MaxStep
MaxGrid == 9      \* grid rows and columns range over 2..MaxGrid

(* ---------------- program constants ---------------- *)
W == 640
H == 480
MinPairs == 12
ord_c == 99
ord_q == 113

\* values cv2.waitKey(1) can return: -1 (no key), 'c', 'q', 'a', 'C',
\* and a code whose low byte is that of 'c'
RawKeys == {-1, 99, 113, 97, 67, 355}
\* ret of the solver: 0 is falsy, any other value truthy
Rets == {0, 1}

(* ---------------- values ---------------- *)
NoMat == [shape |-> <<0, 0>>, data |-> "unset"]
Zeros(rows, cols) == [shape |-> <<rows, cols>>, data |-> "zeros"]
\* results of the solvers: camera matrix and distortion coefficients
SolvedMtx == [shape |-> <<3, 3>>, data |-> "solved"]
SolvedDist(n) == [shape |-> <<1, n>>, data |-> "solved"]
NoImg == [frame |-> -1, texts |-> {}]

SearchMsg(idx) == <<"searching for chessboard corners in frame", idx>>
OkMsg == <<"OK">>
PerformMsg == <<"Performing calibration...">>
LessMsg == <<"Less than 12 corners detected, calibration failed">>
SavedMsg == <<"succesfully saved camera data">>

(* ---------------- grid_points (numpy) ---------------- *)
\* np.indices((r, c)): shape (2, r, c), [0][a][b] = a, [1][a][b] = b
np_indices(gs) ==
    [shape |-> <<2, gs[1], gs[2]>>,
     at |-> [d \in 0..1, a \in 0..(gs[1] - 1), b \in 0..(gs[2] - 1) |->
                IF d = 0 THEN a ELSE b]]

\* ndarray.T of a 3-d array: the axes reversed
Transpose(A) ==
    [shape |-> <<A.shape[3], A.shape[2], A.shape[1]>>,
     at |-> [x \in 0..(A.shape[3] - 1), y \in 0..(A.shape[2] - 1),
             z \in 0..(A.shape[1] - 1) |-> A.at[z, y, x]]]

\* the elements of a 3-d array in C (row-major) order, zero-based
Ravel(A) ==
    [f \in 0..(A.shape[1] * A.shape[2] * A.shape[3] - 1) |->
        A.at[f \div (A.shape[2] * A.shape[3]),
             (f \div A.shape[3]) % A.shape[2],
             f % A.shape[3]]]

\* reshape(-1, 2): consecutive pairs of the row-major elements
Reshape2(A) ==
    LET flat == Ravel(A)
        n == (A.shape[1] * A.shape[2] * A.shape[3]) \div 2
    IN [row \in 1..n |-> <<flat[2 * (row - 1)], flat[2 * (row - 1) + 1]>>]

\* the transpose left out
GridPoints_NoTranspose(gs) ==
    LET xy == Reshape2(np_indices(gs))
    IN [row \in 1..(gs[1] * gs[2]) |-> <<xy[row][1], xy[row][2], 0>>]

\* grid_points = zeros((prod(grid_size), 3)); grid_points[:, :2] = indices.T.reshape(-1, 2)
GridPoints(gs) ==
    LET xy == Reshape2(Transpose(np_indices(gs)))
    IN [row \in 1..(gs[1] * gs[2]) |-> <<xy[row][1], xy[row][2], 0>>]

(* ---------------- helpers of the loop ---------------- *)
Sampled_OffByOne(idx, k) == (idx + 1) % k = 0

\* "if i % args.framestep != 0: continue" lets the frame through when this holds
Sampled(idx, k) == idx % k = 0

AppendIfFound_Always(list, found, x) == Append(list, x)

\* "if found: ... list.append(x)"
AppendIfFound(list, found, x) == IF found THEN Append(list, x) ELSE list

\* cv2.waitKey(1) & 0xFF
KeyMask(raw) == raw % 256

KeyOutcome_QuitAlsoCalib(k) ==
    IF k = ord_c THEN "calib" ELSE IF k = ord_q THEN "both" ELSE "continue"

\* if key == ord("c") ... elif key == ord("q") ...
KeyOutcome(k) ==
    IF k = ord_c THEN "calib" ELSE IF k = ord_q THEN "quit" ELSE "continue"

TooFew_OffByOne(n) == n < MinPairs - 1

\* "if N_OK < 12"
TooFew(n) == n < MinPairs

(* ---------------- initial states ---------------- *)
InitArgs(steps, fish, grids) ==
    /\ pc = "start"
    /\ framestep \in steps
    /\ fisheye \in fish
    /\ grid_size \in grids
    /\ grid_points = <<>>
    /\ source = [pos |-> 0, released |-> FALSE]
    /\ i = -1
    /\ img = NoImg
    /\ objpoints = <<>>
    /\ imgpoints = <<>>
    /\ key = 255
    /\ quit = FALSE
    /\ do_calib = FALSE
    /\ stdout = <<>>
    /\ window = NoImg
    /\ windows_open = FALSE
    /\ polls = 0
    /\ solver_calls = <<>>
    /\ ret = 0
    /\ mtx = NoMat
    /\ dist = NoMat
    /\ K = NoMat
    /\ D = NoMat
    /\ file = <<>>
    /\ file_opens = 0

Init == InitArgs(1..MaxStep, BOOLEAN, {<<2, 2>>})

InitGrid == InitArgs({1}, {FALSE}, (2..MaxGrid) \X (2..MaxGrid))

(* ---------------- actions ---------------- *)
\* lines 66-75: the reference points, the empty lists, the flags, i = -1
Setup ==
    /\ pc = "start"
    /\ grid_points' = GridPoints(grid_size)
    /\ objpoints' = <<>>
    /\ imgpoints' = <<>>
    /\ quit' = FALSE
    /\ do_calib' = FALSE
    /\ i' = -1
    /\ pc' = "loop"
    /\ UNCHANGED <<framestep, fisheye, grid_size, source, img, key, stdout,
                   window, windows_open, polls, solver_calls, ret, mtx, dist,
                   K, D, file, file_opens>>

ReadFail_Retry ==
    /\ pc = "loop"
    /\ i + 1 < MaxFrames
    /\ i' = i + 1
    /\ pc' = "loop"
    /\ UNCHANGED <<framestep, fisheye, grid_size, grid_points, source, img,
                   objpoints, imgpoints, key, quit, do_calib, stdout, window,
                   windows_open, polls, solver_calls, ret, mtx, dist, K, D,
                   file, file_opens>>

\* lines 77-80: source.read() returns a false retcode, ValueError is raised
ReadFail ==
    /\ pc = "loop"
    /\ i + 1 < MaxFrames
    /\ i' = i + 1
    /\ pc' = "raised"
    /\ UNCHANGED <<framestep, fisheye, grid_size, grid_points, source, img,
                   objpoints, imgpoints, key, quit, do_calib, stdout, window,
                   windows_open, polls, solver_calls, ret, mtx, dist, K, D,
                   file, file_opens>>

\* lines 77-82: the frame is read and dropped by the stride
SkipFrame ==
    /\ pc = "loop"
    /\ i + 1 < MaxFrames
    /\ ~Sampled(i + 1, framestep)
    /\ i' = i + 1
    /\ source' = [source EXCEPT !.pos = @ + 1]
    /\ img' = [frame |-> i + 1, texts |-> {}]
    /\ pc' = "loop"
    /\ UNCHANGED <<framestep, fisheye, grid_size, grid_points, objpoints,
                   imgpoints, key, quit, do_calib, stdout, window,
                   windows_open, polls, solver_calls, ret, mtx, dist, K, D,
                   file, file_opens>>

\* lines 77-122: the frame is read, searched for corners, shown, and the key polled
SampledFrame(found, raw) ==
    /\ pc = "loop"
    /\ i + 1 < MaxFrames
    /\ Sampled(i + 1, framestep)
    /\ i' = i + 1
    /\ source' = [source EXCEPT !.pos = @ + 1]
    /\ stdout' = IF found THEN stdout \o <<SearchMsg(i + 1), OkMsg>>
                          ELSE Append(stdout, SearchMsg(i + 1))
    /\ imgpoints' = AppendIfFound(imgpoints, found, [corners_of |-> i + 1])
    /\ objpoints' = AppendIfFound(objpoints, found, grid_points)
    /\ img' = [frame |-> i + 1,
               texts |-> (IF found THEN {"corners"} ELSE {}) \cup {"help"}]
    /\ window' = img'
    /\ windows_open' = TRUE
    /\ polls' = polls + 1
    /\ key' = KeyMask(raw)
    /\ LET o == KeyOutcome(key') IN
         /\ do_calib' = (do_calib \/ o \in {"calib", "both"})
         /\ quit' = (quit \/ o \in {"quit", "both"})
         /\ pc' = IF o = "continue" THEN "loop" ELSE "after_loop"
    /\ UNCHANGED <<framestep, fisheye, grid_size, grid_points, solver_calls,
                   ret, mtx, dist, K, D, file, file_opens>>

QuitCleanup_NoRelease ==
    /\ pc = "after_loop"
    /\ quit
    /\ windows_open' = FALSE
    /\ pc' = "calib_check"
    /\ UNCHANGED <<framestep, fisheye, grid_size, grid_points, source, i, img,
                   objpoints, imgpoints, key, quit, do_calib, stdout, window,
                   polls, solver_calls, ret, mtx, dist, K, D, file, file_opens>>

\* lines 124-126: if quit: source.release(); cv2.destroyAllWindows()
QuitCleanup ==
    /\ pc = "after_loop"
    /\ quit
    /\ source' = [source EXCEPT !.released = TRUE]
    /\ windows_open' = FALSE
    /\ pc' = "calib_check"
    /\ UNCHANGED <<framestep, fisheye, grid_size, grid_points, i, img,
                   objpoints, imgpoints, key, quit, do_calib, stdout, window,
                   polls, solver_calls, ret, mtx, dist, K, D, file, file_opens>>

\* line 124 when quit is false
NoQuit ==
    /\ pc = "after_loop"
    /\ ~quit
    /\ pc' = "calib_check"
    /\ UNCHANGED <<framestep, fisheye, grid_size, grid_points, source, i, img,
                   objpoints, imgpoints, key, quit, do_calib, stdout, window,
                   windows_open, polls, solver_calls, ret, mtx, dist, K, D,
                   file, file_opens>>

\* line 128 when do_calib is false: main() ends
NoCalib ==
    /\ pc = "calib_check"
    /\ ~do_calib
    /\ pc' = "done"
    /\ UNCHANGED <<framestep, fisheye, grid_size, grid_points, source, i, img,
                   objpoints, imgpoints, key, quit, do_calib, stdout, window,
                   windows_open, polls, solver_calls, ret, mtx, dist, K, D,
                   file, file_opens>>

\* lines 128-133: fewer than 12 pairs, the message and return
CalibRefuse ==
    /\ pc = "calib_check"
    /\ do_calib
    /\ TooFew(Len(objpoints))
    /\ stdout' = stdout \o <<PerformMsg, LessMsg>>
    /\ pc' = "done"
    /\ UNCHANGED <<framestep, fisheye, grid_size, grid_points, source, i, img,
                   objpoints, imgpoints, key, quit, do_calib, window,
                   windows_open, polls, solver_calls, ret, mtx, dist, K, D,
                   file, file_opens>>

\* lines 128-156: cv2.fisheye.calibrate, which fills the K and D it is given
CalibFisheye(r) ==
    /\ pc = "calib_check"
    /\ do_calib
    /\ ~TooFew(Len(objpoints))
    /\ fisheye
    /\ stdout' = Append(stdout, PerformMsg)
    /\ solver_calls' = Append(solver_calls, "fisheye")
    /\ ret' = r
    /\ mtx' = SolvedMtx
    /\ dist' = SolvedDist(4)
    /\ K' = mtx'
    /\ D' = dist'
    /\ pc' = "solved"
    /\ UNCHANGED <<framestep, fisheye, grid_size, grid_points, source, i, img,
                   objpoints, imgpoints, key, quit, do_calib, window,
                   windows_open, polls, file, file_opens>>

\* lines 128-141, 157-163: cv2.calibrateCamera(objpoints, imgpoints, (W, H), None, None)
CalibStandard(r) ==
    /\ pc = "calib_check"
    /\ do_calib
    /\ ~TooFew(Len(objpoints))
    /\ ~fisheye
    /\ stdout' = Append(stdout, PerformMsg)
    /\ K' = Zeros(3, 3)
    /\ D' = Zeros(4, 1)
    /\ solver_calls' = Append(solver_calls, "standard")
    /\ ret' = r
    /\ mtx' = SolvedMtx
    /\ dist' = SolvedDist(5)
    /\ pc' = "solved"
    /\ UNCHANGED <<framestep, fisheye, grid_size, grid_points, source, i, img,
                   objpoints, imgpoints, key, quit, do_calib, window,
                   windows_open, polls, file, file_opens>>

\* the buffers handed to the yaml writer
SavedData ==
    << <<"dim", [shape |-> <<2>>, data |-> <<W, H>>]>>,
       <<"camera_matrix", K>>,
       <<"dist_coeffs", D>> >>

ShowResult_AlwaysSave ==
    /\ pc = "solved"
    /\ file_opens' = file_opens + 1
    /\ file' = SavedData
    /\ stdout' = Append(stdout, SavedMsg)
    /\ img' = [img EXCEPT !.texts = @ \cup {"Success!"}]
    /\ window' = img'
    /\ windows_open' = TRUE
    /\ pc' = "wait_key"
    /\ UNCHANGED <<framestep, fisheye, grid_size, grid_points, source, i,
                   objpoints, imgpoints, key, quit, do_calib, polls,
                   solver_calls, ret, mtx, dist, K, D>>

\* lines 165-183: on a truthy ret write the file and draw "Success!",
\* otherwise draw "Failed!"; then show the frame
ShowResult ==
    /\ pc = "solved"
    /\ IF ret # 0
         THEN /\ file_opens' = file_opens + 1
              /\ file' = SavedData
              /\ stdout' = Append(stdout, SavedMsg)
              /\ img' = [img EXCEPT !.texts = @ \cup {"Success!"}]
         ELSE /\ img' = [img EXCEPT !.texts = @ \cup {"Failed!"}]
              /\ UNCHANGED <<file, file_opens, stdout>>
    /\ window' = img'
    /\ windows_open' = TRUE
    /\ pc' = "wait_key"
    /\ UNCHANGED <<framestep, fisheye, grid_size, grid_points, source, i,
                   objpoints, imgpoints, key, quit, do_calib, polls,
                   solver_calls, ret, mtx, dist, K, D>>

\* line 184: cv2.waitKey(0) returns on any key and main() ends
FinalKey ==
    /\ pc = "wait_key"
    /\ pc' = "done"
    /\ UNCHANGED <<framestep, fisheye, grid_size, grid_points, source, i, img,
                   objpoints, imgpoints, key, quit, do_calib, stdout, window,
                   windows_open, polls, solver_calls, ret, mtx, dist, K, D,
                   file, file_opens>>

Next ==
    \/ Setup
    \/ ReadFail
    \/ SkipFrame
    \/ \E found \in BOOLEAN, raw \in RawKeys : SampledFrame(found, raw)
    \/ QuitCleanup
    \/ NoQuit
    \/ NoCalib
    \/ CalibRefuse
    \/ \E r \in Rets : CalibFisheye(r)
    \/ \E r \in Rets : CalibStandard(r)
    \/ ShowResult
    \/ FinalKey

Spec == Init /\ [][Next]_vars

\* the start-up computation of grid_points alone, over all grid sizes
NextGrid == Setup

SpecGrid == InitGrid /\ [][NextGrid]_vars

(* ---------------- operators used by the properties ---------------- *)
Ceil(n, k) == (n + k - 1) \div k

IsSearch(m) == Len(m) = 2 /\ m[1] = SearchMsg(0)[1]

\* the frame indices announced by "searching for chessboard corners in frame"
SearchedFrames == LET s == SelectSeq(stdout, IsSearch)
                  IN [n \in 1..Len(s) |-> s[n][2]]

RECURSIVE FoundFrames(_)
\* the searched frames whose announcement is followed by "OK"
FoundFrames(s) ==
    IF Len(s) < 2 THEN <<>>
    ELSE IF IsSearch(s[1]) /\ s[2] = OkMsg
         THEN <<s[1][2]>> \o FoundFrames(Tail(Tail(s)))
         ELSE FoundFrames(Tail(s))

IsPrefix(s, t) == Len(s) <= Len(t) /\ \A n \in 1..Len(s) : s[n] = t[n]

InStdout(m) == \E n \in 1..Len(stdout) : stdout[n] = m

(* ---------------- properties ---------------- *)

\* C1: when 'c' was pressed with fewer than 12 accumulated pairs, main()
\* prints the failure message, invokes no solver and never opens the output
\* file; with 12 or more pairs exactly one solver is invoked.
C1_RefuseBelowTwelve ==
    /\ (do_calib /\ Len(objpoints) < MinPairs) =>
          /\ solver_calls = <<>>
          /\ file = <<>> /\ file_opens = 0
          /\ pc \in {"after_loop", "calib_check", "done"}
          /\ pc = "done" => InStdout(LessMsg)
    /\ (do_calib /\ Len(objpoints) >= MinPairs
          /\ pc \in {"solved", "wait_key", "done"}) =>
          /\ Len(solver_calls) = 1
          /\ solver_calls[1] = IF fisheye THEN "fisheye" ELSE "standard"
          /\ ~InStdout(LessMsg)

C1_Witness ==
    /\ pc = "done" /\ do_calib
    /\ Len(objpoints) = MinPairs - 1
    /\ InStdout(LessMsg)

\* C2: with at least 12 pairs, fisheye false and a truthy ret, the
\* camera_matrix and dist_coeffs entries of the output file are the 3x3
\* matrix and the 5-element vector the standard solver returned.
C2_WrittenIsSolved ==
    (file # <<>> /\ ~fisheye) =>
        /\ file[2] = <<"camera_matrix", mtx>>
        /\ file[3] = <<"dist_coeffs", dist>>
        /\ mtx = SolvedMtx /\ dist = SolvedDist(5)

\* C3: the output file is written at most once, and only after 'c', with at
\* least 12 pairs and a truthy ret; a falsy ret shows "Failed!" and writes
\* nothing; after 'q' or a failed read the file is never written.
C3_WriteOnlyOnSuccess ==
    /\ [](/\ file_opens <= 1
          /\ (file # <<>>) <=> (file_opens = 1)
          /\ file_opens = 1 =>
                /\ do_calib /\ ~quit
                /\ Len(objpoints) >= MinPairs
                /\ Len(solver_calls) = 1
                /\ ret # 0
          /\ (pc \in {"wait_key", "done"} /\ solver_calls # <<>> /\ ret = 0) =>
                /\ "Failed!" \in window.texts
                /\ "Success!" \notin window.texts
                /\ file = <<>>
          /\ (quit \/ pc = "raised") => (file = <<>> /\ file_opens = 0))
    /\ [][file # <<>> => (file' = file /\ file_opens' = file_opens)]_vars

C3_Witness ==
    /\ pc = "done" /\ solver_calls # <<>> /\ ret = 0
    /\ "Failed!" \in window.texts /\ file = <<>>

\* C4: after 'q' is read (no 'c' before it) the loop is left, the capture
\* source is released, the windows are destroyed, no solver is invoked and
\* the output file is not written before main() returns.
C4_QuitPath ==
    /\ [](quit =>
            /\ pc \in {"after_loop", "calib_check", "done"}
            /\ ~do_calib
            /\ solver_calls = <<>>
            /\ file = <<>> /\ file_opens = 0
            /\ pc \in {"calib_check", "done"} =>
                  (source.released /\ ~windows_open))
    /\ [][(quit /\ pc = "calib_check") => pc' = "done"]_vars

C4_Witness ==
    /\ pc = "done" /\ quit /\ source.released /\ ~windows_open
    /\ Len(objpoints) >= MinPairs

\* C5: of the N frames read so far exactly ceil(N / framestep) were
\* forwarded to detection, namely the frames 0, k, 2k, ...; display and key
\* polling happen for those frames only.
C5_Stride ==
    LET s == SearchedFrames IN
    /\ Len(s) = Ceil(source.pos, framestep)
    /\ \A n \in 1..Len(s) : s[n] = (n - 1) * framestep
    /\ polls = Len(s)
    /\ window # NoImg => \E n \in 1..Len(s) : window.frame = s[n]
    /\ \A n \in 1..Len(imgpoints) :
          \E m \in 1..Len(s) : imgpoints[n].corners_of = s[m]

C5_Witness ==
    /\ framestep = 3 /\ source.pos = 7 /\ Len(SearchedFrames) = 3
    /\ pc = "loop"

\* C6: source.release() has been called when main() ends, on every normal
\* exit path: after 'q', after a successful or failed calibration, and
\* after the fewer-than-12 refusal.
C6_ReleasedOnEveryExit == pc = "done" => source.released

\* C7: a failed read at any frame index raises at once: no retry, no
\* further read, no detection or key polling for that frame, no solver and
\* no output file, however many pairs were accumulated.
C7_ReadFailFatal ==
    /\ [][(i' = i + 1 /\ source'.pos = source.pos) =>
            /\ pc' = "raised"
            /\ UNCHANGED <<stdout, polls, window, objpoints, imgpoints,
                           solver_calls, file, file_opens>>]_vars
    /\ [][pc = "raised" => vars' = vars]_vars
    /\ [](pc = "raised" =>
            /\ source.pos = i
            /\ ~InStdout(SearchMsg(i))
            /\ solver_calls = <<>>
            /\ file = <<>> /\ file_opens = 0)

C7_Witness ==
    /\ pc = "raised"
    /\ Len(objpoints) >= MinPairs
    /\ file = <<>>

\* C8: the key read on a sampled frame decides the next state: 'c' leaves
\* the loop towards calibration, 'q' leaves it towards quitting, which is
\* never followed by calibration, and any other key or no key stays in the
\* loop with the frame counter advanced and the pairs changed by the
\* detection only; do_calib and quit are never both set.
C8_KeyDecides ==
    /\ [][(pc = "loop" /\ polls' = polls + 1) =>
            /\ i' = i + 1
            /\ key' = ord_c => (pc' = "after_loop" /\ do_calib' /\ ~quit')
            /\ key' = ord_q => (pc' = "after_loop" /\ quit' /\ ~do_calib')
            /\ key' \notin {ord_c, ord_q} =>
                  /\ pc' = "loop" /\ ~do_calib' /\ ~quit'
                  /\ objpoints' = IF Len(stdout') = Len(stdout) + 2
                                    THEN Append(objpoints, grid_points)
                                    ELSE objpoints]_vars
    /\ [][quit => (quit' /\ ~do_calib' /\ solver_calls' = <<>>)]_vars
    /\ [](~(quit /\ do_calib))
    /\ [](pc = "loop" => (~quit /\ ~do_calib))

C8_Witness ==
    /\ pc = "loop" /\ key = 67 /\ polls >= 2
    /\ ~quit /\ ~do_calib

\* C9: objpoints and imgpoints always have the same length, the number of
\* sampled frames on which detection succeeded, with one entry per such
\* frame in frame order; the lists only grow at the end, and not at all
\* once the loop is left.
C9_PairsFollowDetections ==
    /\ [](LET ff == FoundFrames(stdout) IN
            /\ Len(objpoints) = Len(imgpoints)
            /\ Len(imgpoints) = Len(ff)
            /\ \A n \in 1..Len(ff) :
                  /\ imgpoints[n] = [corners_of |-> ff[n]]
                  /\ objpoints[n] = grid_points)
    /\ [][/\ IsPrefix(objpoints, objpoints')
          /\ IsPrefix(imgpoints, imgpoints')
          /\ Len(imgpoints') <= Len(imgpoints) + 1
          /\ pc \notin {"start", "loop"} =>
                UNCHANGED <<objpoints, imgpoints>>]_vars

C9_Witness ==
    /\ pc = "done"
    /\ Len(imgpoints) >= 2
    /\ Len(imgpoints) < Len(SearchedFrames)

\* C10: for every grid size (r, c) with r, c >= 2 the reference array has
\* exactly r*c rows, every row has z = 0, and each (x, y) of
\* {0..r-1} x {0..c-1} occurs in exactly one row.
C10_GridPoints ==
    pc # "start" =>
        LET r == grid_size[1]
            c == grid_size[2]
        IN /\ Len(grid_points) = r * c
           /\ \A n \in 1..Len(grid_points) : grid_points[n][3] = 0
           /\ \A x \in 0..(r - 1), y \in 0..(c - 1) :
                 Cardinality({n \in 1..Len(grid_points) :
                     grid_points[n][1] = x /\ grid_points[n][2] = y}) = 1

C10_Witness ==
    /\ pc = "loop"
    /\ grid_size = <<3, 2>>
    /\ grid_points = << <<0, 0, 0>>, <<1, 0, 0>>, <<2, 0, 0>>,
                        <<0, 1, 0>>, <<1, 1, 0>>, <<2, 1, 0>> >>

====
